---- MODULE Spec2Model ----
(***************************************************************************)
(* Model of the XBeach wave-boundary extraction of rompy-xbeach            *)
(* (src/src/rompy_xbeach/boundary.py): the BCFile output descriptor, the   *)
(* time range adjuster, the spread-to-exponent conversion, the boundary    *)
(* record builder and the two-mode emitter BoundaryStationJons.get.        *)
(*                                                                         *)
(* Time instants are integers counting ticks of the datetime resolution;   *)
(* TicksPerSec ticks make one second.  A row of a series is a record       *)
(* [t, v]: the instant and the class of the wave data carried there:       *)
(*   "ok"   every parameter finite, directional spread > 0                 *)
(*   "nan"  the data is NaN at this instant                                *)
(*   "zero" every parameter finite, directional spread = 0                 *)
(***************************************************************************)
EXTENDS Integers, Sequences, FiniteSets, TLC

\* ---------------------------------------------------------------- bounds
MaxLen   == 3      \* longest source series
MinLen   == 2      \* shortest source series (interpolation needs two rows)

\* ------------------------------------------------------------- constants
TicksPerSec == 2   \* resolution of an instant below one second
GPrecision  == 6   \* significant digits of the 'g' presentation type
BufferStart == 1   \* time_buffer[0]
BufferEnd   == 1   \* time_buffer[1]
DbtcTenths  == 10  \* dbtc = 1.0 s, in tenths of a second

\* An instant far enough from the small ones for a duration to need more
\* than GPrecision significant digits.
BigTick  == TicksPerSec * 10^(GPrecision - 1) + TicksPerSec + 1
\* The instants of the model: two within one second, the start of the next
\* second, and the far one.
TimePool == (0..TicksPerSec) \cup {BigTick}
Vals     == {"ok", "nan", "zero"}

NoTime     == [none |-> TRUE, start |-> 0, end |-> 0]
TimeRanges == {[none |-> FALSE, start |-> a, end |-> b] :
                 a \in TimePool, b \in TimePool}
ValidRanges == {r \in TimeRanges : r.start <= r.end}

NoCrop == [set |-> FALSE, lo |-> 0, hi |-> 0]

\* ------------------------------------------------------------ sequences
RECURSIVE SumSeq(_)
SumSeq(s) == IF s = <<>> THEN 0 ELSE s[1] + SumSeq(Tail(s))

Times(ds) == [i \in 1..Len(ds) |-> ds[i].t]

HasDuplicates(ts) == \E i, j \in 1..Len(ts) : i < j /\ ts[i] = ts[j]

InTimes(x, ds) == \E i \in 1..Len(ds) : ds[i].t = x

\* --------------------------------------------------------------- BCFile
NoPath == [set |-> FALSE, dir |-> "", name |-> <<"", 0>>]
MkPath(d, n) == [set |-> TRUE, dir |-> d, name |-> n]

\* BCFile.bcfile_or_filelist: the model validator run at construction.
bcfile_or_filelist(bcfile, filelist) ==
    IF ~(bcfile.set \/ filelist.set) THEN "ValueError" ELSE "ok"

\* namelist with the branch taken on bcfile and the whole path as the value.
namelist_FullPath(bc) ==
    IF bc.bcfile.set
    THEN [k \in {"bcfile"} |-> <<bc.bcfile.dir, bc.bcfile.name[2]>>]
    ELSE [k \in {"filelist"} |-> <<bc.filelist.dir, bc.filelist.name[2]>>]

\* BCFile.namelist: a mapping from keys to base names.
namelist(bc) ==
    IF bc.filelist.set
    THEN [k \in {"filelist"} |-> bc.filelist.name]
    ELSE [k \in {"bcfile"} |-> bc.bcfile.name]

EmptyNamelist == [k \in {} |-> <<"", 0>>]

\* ------------------------------------------------------------ dspr_to_s
\* (2 / radians(dspr)**2) - 1 on numpy values: a zero spread divides by
\* zero and yields inf, a NaN spread yields NaN.
dspr_to_s(dspr) ==
    CASE dspr = "zero" -> "inf"
      [] dspr = "nan"  -> "nan"
      [] OTHER         -> "num"

\* --------------------------------------------------- the source under a filter
\* DataGrid.ds as used by _validate_time and _sel_boundary: the source series
\* at the boundary point, opened under the object's current time crop.
FilteredDs(src, crop) ==
    IF crop.set
    THEN SelectSeq(src, LAMBDA row : crop.lo <= row.t /\ row.t <= crop.hi)
    ELSE src

\* _validate_time: the requested range against the first and last instant
\* of self.ds.
_validate_time(ds, time) ==
    IF time.start < ds[1].t \/ time.end > ds[Len(ds)].t
    THEN "ValueError" ELSE "ok"

Clip(x, lo, hi) == IF x < lo THEN lo ELSE IF x > hi THEN hi ELSE x

\* self._filter_time(time): stores a time crop in the object's filter, the
\* requested range widened by time_buffer source timesteps on either side.
_filter_time(ds, time) ==
    LET L      == Len(ds)
        iStart == Cardinality({i \in 1..L : ds[i].t <= time.start})
        iEnd   == L + 1 - Cardinality({i \in 1..L : ds[i].t >= time.end})
    IN  [set |-> TRUE,
         lo  |-> ds[Clip(iStart - BufferStart, 1, L)].t,
         hi  |-> ds[Clip(iEnd + BufferEnd, 1, L)].t]

\* ------------------------------------------------------------- ds.interp
\* Linear interpolation of one sample at instant x: the bracket is found by
\* a left binary search clipped to the series, the sample is
\* slope * (x - x_lo) + y_lo; outside the series it is NaN unless
\* extrapolation was asked for.
interp(ds, x, extrapolate) ==
    LET L   == Len(ds)
        cnt == Cardinality({i \in 1..L : ds[i].t < x})
        lo  == Clip(cnt, 1, L - 1)
        hi  == lo + 1
        v   == CASE ~extrapolate /\ (x < ds[1].t \/ x > ds[L].t) -> "nan"
                 [] ds[lo].v = "nan" \/ ds[hi].v = "nan" -> "nan"
                 [] x = ds[hi].t -> ds[hi].v
                 [] x = ds[lo].t -> ds[lo].v
                 [] ds[lo].v = "zero" /\ ds[hi].v = "zero" -> "zero"
                 [] OTHER -> "ok"
    IN  [t |-> x, v |-> v]

\* ---------------------------------------------------------- _adjust_time
Slice(ds, a, b) == SelectSeq(ds, LAMBDA row : a <= row.t /\ row.t <= b)

\* _adjust_time without the second splice: the end sample is never added.
_adjust_time_NoEnd(ds, time) ==
    LET dsout == Slice(ds, time.start, time.end)
    IN  IF ~InTimes(time.start, ds)
        THEN <<interp(ds, time.start, TRUE)>> \o dsout
        ELSE dsout

_adjust_time(ds, time) ==
    LET dsout == Slice(ds, time.start, time.end)
        d1    == IF ~InTimes(time.start, ds)
                 THEN <<interp(ds, time.start, TRUE)>> \o dsout
                 ELSE dsout
        d2    == IF ~InTimes(time.end, ds)
                 THEN d1 \o <<interp(ds, time.end, TRUE)>>
                 ELSE d1
    IN  d2

\* Number of ds.interp calls _adjust_time makes.
AdjustInterps(ds, time) ==
    (IF ~InTimes(time.start, ds) THEN 1 ELSE 0)
    + (IF ~InTimes(time.end, ds) THEN 1 ELSE 0)

\* ------------------------------------------------------ _calculate_stats
\* BoundaryStationSpectraJons._calculate_stats: the bulk parameters of each
\* row and the spreading exponent converted from the spread.
_calculate_stats(ds) ==
    [i \in 1..Len(ds) |->
        [t   |-> ds[i].t,
         hm0 |-> IF ds[i].v = "nan" THEN "nan" ELSE "num",
         gammajsp |-> IF ds[i].v = "nan" THEN "nan" ELSE "num",
         s   |-> dspr_to_s(IF ds[i].v = "ok" THEN "pos" ELSE ds[i].v)]]

\* The configuration of the statistics: the variant and, for the parametric
\* one, how gammajsp and dspr are given: "str" (a variable of the source),
\* "float" (a constant) or "None".  hm0, tp and mainang name variables.
SpectraParams == [variant |-> "spectra", gammajsp |-> "str", dspr |-> "str"]
ParamKinds    == {"str", "float", "None"}
ParamParams   == {[variant |-> "param", gammajsp |-> g, dspr |-> d] :
                    g \in ParamKinds, d \in ParamKinds}

\* stats[param] = [value] * ds.time.size: a list set without dimension names
\* makes an entry along a dimension of its own, as long as the series; it
\* reads as one value only when the series has one instant.
ListEntry(n, one) == IF n = 1 THEN one ELSE "array"

\* The gammajsp entry of the parametric table.  The second branch of the
\* loop is `elif isinstance:`, true of every value that is not a string, so
\* a None gets an entry of None values.
ParamGammajsp(pm, ds, i) ==
    CASE pm.gammajsp = "str"   -> IF ds[i].v = "nan" THEN "nan" ELSE "num"
      [] pm.gammajsp = "float" -> ListEntry(Len(ds), "num")
      [] OTHER                 -> ListEntry(Len(ds), "none")

\* The s entry of the parametric table: absent when dspr is None.
ParamS(pm, ds, i) ==
    CASE pm.dspr = "str"   ->
            dspr_to_s(IF ds[i].v = "ok" THEN "pos" ELSE ds[i].v)
      [] pm.dspr = "float" -> ListEntry(Len(ds), dspr_to_s("pos"))
      [] OTHER             -> "absent"

\* BoundaryStationParamJons._calculate_stats.
_calculate_stats_param(pm, ds) ==
    [i \in 1..Len(ds) |->
        [t   |-> ds[i].t,
         hm0 |-> IF ds[i].v = "nan" THEN "nan" ELSE "num",
         gammajsp |-> ParamGammajsp(pm, ds, i),
         s   |-> ParamS(pm, ds, i)]]

\* self._calculate_stats(ds) of the concrete class.
CalculateStats(pm, ds) ==
    IF pm.variant = "spectra" THEN _calculate_stats(ds)
    ELSE _calculate_stats_param(pm, ds)

\* -------------------------------------------------- _instantiate_boundary
\* f"jons-{t:%Y%m%dT%H%M%S}.txt": the instant truncated to whole seconds.
BcfileName(t) == <<"jons", t \div TicksPerSec>>

\* The NaN test that passes a row over as soon as its height is NaN (the
\* first branch of the loop skipping the parameter instead of raising).
ParamIsNan_OnlyS(row) == row.s = "nan" /\ row.hm0 # "nan"

\* A recognised parameter that is NaN raises; the others go to the record.
ParamIsNan(row) == row.hm0 = "nan" \/ row.gammajsp = "nan" \/ row.s = "nan"

\* What building the record of a row raises, the parameters taken in the
\* order hm0, tp, mainang, gammajsp, s: np.isnan of None values is a
\* TypeError, the truth value of an entry of several values a ValueError.
BuildError(row) ==
    CASE row.hm0 = "nan"        -> IF ParamIsNan(row) THEN "nan_error" ELSE "ok"
      [] row.gammajsp = "none"  -> "type_error"
      [] row.gammajsp = "array" -> "value_error"
      [] row.gammajsp = "nan"   -> IF ParamIsNan(row) THEN "nan_error" ELSE "ok"
      [] row.s = "array"        -> "value_error"
      [] ParamIsNan(row)        -> "nan_error"
      [] OTHER                  -> "ok"

BuildFails(row) == BuildError(row) # "ok"

_instantiate_boundary(row) ==
    [bcfile |-> BcfileName(row.t), t |-> row.t, hm0 |-> row.hm0,
     gammajsp |-> row.gammajsp, s |-> row.s]

\* wb.write(destdir): the path of the file written.
WbWrite(wb, destdir) == MkPath(destdir, wb.bcfile)

\* -------------------------------------------------------- _write_filelist
RECURSIVE NumDigits(_)
NumDigits(n) == IF n < 10 THEN 1 ELSE 1 + NumDigits(n \div 10)

\* timedelta.total_seconds(), in tenths of a second.
TotalSeconds(dticks) == dticks * (10 \div TicksPerSec)

\* The number a field written with the 'g' presentation type reads back as
\* (x in tenths): GPrecision significant digits, round-half-even.
FmtG(x) ==
    LET k == NumDigits(x)
    IN  IF k <= GPrecision THEN x
        ELSE LET u == 10^(k - GPrecision)
                 q == x \div u
                 r == x % u
             IN  (IF 2 * r > u \/ (2 * r = u /\ q % 2 = 1) THEN q + 1 ELSE q) * u

\* The text of a numeric field written with f"{x:g}": the digits of the
\* rounded number without its trailing zeros, and the power of ten (of
\* tenths) they stand at.
RECURSIVE StripZeros(_, _)
StripZeros(m, e) ==
    IF m # 0 /\ m % 10 = 0 THEN StripZeros(m \div 10, e + 1)
    ELSE [digits |-> m, exp |-> e]

GText(x) == StripZeros(FmtG(x), 0)

\* The tokens of a line, separated by blanks.
NumToken(x)  == [kind |-> "num", digits |-> GText(x).digits,
                 exp |-> GText(x).exp, word |-> <<"", 0>>]
WordToken(w) == [kind |-> "word", digits |-> 0, exp |-> 0, word |-> w]

HeaderLine == <<WordToken(<<"FILELIST", 0>>)>>

\* f"{duration:g} {self.dbtc:g} {bcfile.name}\n"
RecordLine(bcfile, duration) ==
    <<NumToken(duration), NumToken(DbtcTenths), WordToken(bcfile.name)>>

ZipLen(bcfiles, durations) ==
    IF Len(bcfiles) < Len(durations) THEN Len(bcfiles) ELSE Len(durations)

_write_filelist_NoHeader(bcfiles, durations) ==
    [i \in 1..ZipLen(bcfiles, durations) |->
        RecordLine(bcfiles[i], durations[i])]

\* _write_filelist: the header line, then one line per pair of
\* zip(bcfiles, durations).
_write_filelist(bcfiles, durations) ==
    <<HeaderLine>> \o [i \in 1..ZipLen(bcfiles, durations) |->
                        RecordLine(bcfiles[i], durations[i])]

\* Reading the file back: the number a numeric token stands for, the three
\* fields of a line, the lines after the header.
ParseG(tok) == tok.digits * 10^tok.exp

ParseLine(line) ==
    [duration |-> ParseG(line[1]),
     substep  |-> ParseG(line[2]),
     file     |-> line[3].word]

ParseFilelist(text) ==
    IF text = <<>> \/ Head(text) # HeaderLine THEN <<>>
    ELSE [i \in 1..(Len(text) - 1) |-> ParseLine(text[i + 1])]

\* The records of the index file written for the pairs, as a reader gets
\* them.
FilelistLines(bcfiles, durations) ==
    ParseFilelist(_write_filelist(bcfiles, durations))

FilelistPath(destdir) == MkPath(destdir, <<"filelist.txt", 0>>)

\* -------------------------------------------------------------------- get
Destdir == "destdir"

\* The shape of what one call of get did; the fields a branch does not
\* reach keep these values.
Blank(time, failAt, crop) ==
    [time |-> time, failAt |-> failAt, crop |-> crop,
     outcome |-> "ok", result |-> EmptyNamelist, validated |-> FALSE,
     interps |-> 0, padded |-> <<>>, stats |-> <<>>, built |-> <<>>,
     written |-> <<>>, durations |-> <<>>,
     indexWritten |-> FALSE, text |-> <<>>, index |-> <<>>]

\* BoundaryBaseStation.get: validate and store the time crop when cropping
\* is on and a time range is given.  Yields the outcome and the crop held
\* by the object afterwards.
BaseGet(src, cropData, crop0, time) ==
    IF cropData /\ ~time.none
    THEN IF _validate_time(FilteredDs(src, crop0), time) = "ok"
         THEN [outcome |-> "ok", validated |-> TRUE,
               crop |-> _filter_time(FilteredDs(src, crop0), time)]
         ELSE [outcome |-> "range_error", validated |-> TRUE, crop |-> crop0]
    ELSE [outcome |-> "ok", validated |-> FALSE, crop |-> crop0]

\* The loop dropping one more instant: zip(times[:-2], times[1:]).
RecordIdx_Short(n) == 1..(n - 2)

\* The records the loop of get visits: zip(times[:-1], times[1:]).
RecordIdx(n) == 1..(n - 1)

\* The end of the SINGLE branch for the one row of statistics.
SingleEnd(data, wb, path, failAt, b1) ==
    CASE BuildFails(data[1]) -> [b1 EXCEPT !.outcome = BuildError(data[1])]
      [] failAt = 1 -> [b1 EXCEPT !.outcome = "io_error", !.built = <<wb>>]
      [] bcfile_or_filelist(path, NoPath) # "ok" ->
            [b1 EXCEPT !.outcome = "config_error", !.built = <<wb>>,
                       !.written = <<path>>]
      [] OTHER ->
            [b1 EXCEPT !.built = <<wb>>, !.written = <<path>>,
                       !.result = namelist([bcfile |-> path,
                                            filelist |-> NoPath])]

SingleStats(data, failAt, b) ==
    SingleEnd(data, _instantiate_boundary(data[1]),
              WbWrite(_instantiate_boundary(data[1]), Destdir), failAt,
              [b EXCEPT !.interps = 1, !.stats = data])

\* not self.filelist: one record at time.start.
GetSingle(pm, ds, time, failAt, b) ==
    SingleStats(CalculateStats(pm, <<interp(ds, time.start, FALSE)>>),
                failAt, b)

\* The first record of the loop that fails, by a NaN parameter or by the
\* write failing; 0 when every record is built and written.
FirstBad(stats, failAt) ==
    IF \E k \in RecordIdx(Len(stats)) : BuildFails(stats[k]) \/ failAt = k
    THEN CHOOSE k \in RecordIdx(Len(stats)) :
            /\ BuildFails(stats[k]) \/ failAt = k
            /\ \A j \in RecordIdx(Len(stats)) :
                  (BuildFails(stats[j]) \/ failAt = j) => k <= j
    ELSE 0

\* Records written when the loop stops at record K (0: runs to its end).
NumWritten(stats, K) ==
    IF K = 0 THEN Cardinality(RecordIdx(Len(stats))) ELSE K - 1

\* Records built: the failing record too when it is its write that fails.
NumBuilt(stats, K) ==
    IF K = 0 THEN Cardinality(RecordIdx(Len(stats)))
    ELSE IF BuildFails(stats[K]) THEN K - 1 ELSE K

LoopBuilt(stats, n) == [k \in 1..n |-> _instantiate_boundary(stats[k])]

LoopPaths(stats, n) ==
    [k \in 1..n |-> WbWrite(_instantiate_boundary(stats[k]), Destdir)]

LoopDurations(stats, n) ==
    [k \in 1..n |-> TotalSeconds(stats[k + 1].t - stats[k].t)]

SequenceEnd_IndexAnyway(stats, K, failAt, paths, durs, b2) ==
    [b2 EXCEPT !.outcome = IF K # 0 THEN "io_error" ELSE "ok",
               !.indexWritten = TRUE,
               !.text = _write_filelist(paths, durs),
               !.index = FilelistLines(paths, durs),
               !.result = namelist([bcfile |-> NoPath,
                                    filelist |-> FilelistPath(Destdir)])]

\* The end of the SEQUENCE branch: the loop stopped at K, then the index.
SequenceEnd(stats, K, failAt, paths, durs, b2) ==
    CASE K # 0 /\ BuildFails(stats[K]) ->
            [b2 EXCEPT !.outcome = BuildError(stats[K])]
      [] K # 0 -> [b2 EXCEPT !.outcome = "io_error"]
      [] failAt = Len(paths) + 1 -> [b2 EXCEPT !.outcome = "io_error"]
      [] bcfile_or_filelist(NoPath, FilelistPath(Destdir)) # "ok" ->
            [b2 EXCEPT !.outcome = "config_error", !.indexWritten = TRUE,
                       !.text = _write_filelist(paths, durs),
                       !.index = FilelistLines(paths, durs)]
      [] OTHER ->
            [b2 EXCEPT !.indexWritten = TRUE,
                       !.text = _write_filelist(paths, durs),
                       !.index = FilelistLines(paths, durs),
                       !.result = namelist([bcfile |-> NoPath,
                                            filelist |-> FilelistPath(Destdir)])]

\* The loop over zip(times[:-1], times[1:]).
SequenceLoop(stats, K, failAt, b1) ==
    \* stats.sel(time=[t0]) needs a unique time index
    IF RecordIdx(Len(stats)) # {} /\ HasDuplicates(Times(stats))
    THEN [b1 EXCEPT !.outcome = "index_error"]
    ELSE SequenceEnd(stats, K, failAt,
                     LoopPaths(stats, NumWritten(stats, K)),
                     LoopDurations(stats, NumWritten(stats, K)),
                     [b1 EXCEPT !.built = LoopBuilt(stats, NumBuilt(stats, K)),
                                !.written = LoopPaths(stats, NumWritten(stats, K)),
                                !.durations =
                                    LoopDurations(stats, NumWritten(stats, K))])

SequenceStats(padded, stats, interps, failAt, b) ==
    SequenceLoop(stats, FirstBad(stats, failAt), failAt,
                 [b EXCEPT !.interps = interps, !.padded = padded,
                           !.stats = stats])

\* self.filelist: one record per instant of the adjusted series but the
\* last, then the index file.
GetSequence(pm, ds, time, failAt, b) ==
    SequenceStats(_adjust_time(ds, time),
                  CalculateStats(pm, _adjust_time(ds, time)),
                  AdjustInterps(ds, time), failAt, b)

GetBranch(pm, src, fl, base, time, failAt, b) ==
    CASE base.outcome # "ok" -> [b EXCEPT !.outcome = base.outcome]
      \* time.start on None
      [] time.none -> [b EXCEPT !.outcome = "attr_error"]
      [] ~fl -> GetSingle(pm, FilteredDs(src, base.crop), time, failAt, b)
      [] OTHER -> GetSequence(pm, FilteredDs(src, base.crop), time, failAt, b)

GetAfterBase(pm, src, fl, base, time, failAt) ==
    GetBranch(pm, src, fl, base, time, failAt,
              [Blank(time, failAt, base.crop) EXCEPT
                  !.validated = base.validated])

\* BoundaryStationJons.get on an object holding crop0.
GetOutcome(pm, src, cropData, fl, crop0, time, failAt) ==
    GetAfterBase(pm, src, fl, BaseGet(src, cropData, crop0, time), time,
                 failAt)

\* ------------------------------------------------------------------ state
VARIABLES
    params,     \* the statistics variant of the object and its parameters
    source,     \* the source series at the boundary point (rows [t, v])
    filelist,   \* BoundaryStationJons.filelist
    crop_data,  \* DataGrid.crop_data
    crop,       \* the time crop held by the object's filter
    last,       \* what the last get call did
    bc          \* the last BCFile construction: its fields and the verdict

vars == <<params, source, filelist, crop_data, crop, last, bc>>

MaxFail == 2   \* write operations an I/O failure may hit: 1..MaxFail

SortedTimes ==
    UNION {{ts \in [1..n -> TimePool] : \A i \in 1..(n - 1) : ts[i] < ts[i + 1]}
             : n \in MinLen..MaxLen}

Sources ==
    UNION {{[i \in 1..Len(ts) |-> [t |-> ts[i], v |-> vs[i]]]
              : vs \in [1..Len(ts) -> Vals]} : ts \in SortedTimes}

NoBc == [bcfile |-> NoPath, filelist |-> NoPath, verdict |-> "none"]

Init ==
    /\ params = SpectraParams
    /\ source \in Sources
    /\ filelist \in BOOLEAN
    /\ crop_data \in BOOLEAN
    /\ crop = NoCrop
    /\ last = [Blank(NoTime, 0, NoCrop) EXCEPT !.outcome = "none"]
    /\ bc = NoBc

Get(time, failAt) ==
    /\ last' = GetOutcome(params, source, crop_data, filelist, crop, time,
                          failAt)
    /\ crop' = last'.crop
    /\ UNCHANGED <<params, source, filelist, crop_data, bc>>

BcDirs == {Destdir, "rundir", "."}

PathChoices ==
    {NoPath}
    \cup {MkPath(d, BcfileName(t)) : d \in BcDirs, t \in TimePool}
    \cup {FilelistPath(d) : d \in BcDirs}

\* BCFile(bcfile=..., filelist=...)
NewBCFile(b, f) ==
    /\ bc' = [bcfile |-> b, filelist |-> f,
              verdict |-> bcfile_or_filelist(b, f)]
    /\ UNCHANGED <<params, source, filelist, crop_data, crop, last>>

Next ==
    \E time \in ValidRanges \cup {NoTime}, failAt \in 0..MaxFail :
        Get(time, failAt)

Spec == Init /\ [][Next]_vars

\* An object of the parametric variant, over the shortest source series and
\* without cropping.
InitParam ==
    /\ params \in ParamParams
    /\ source \in {src \in Sources : Len(src) = MinLen}
    /\ filelist \in BOOLEAN
    /\ crop_data = FALSE
    /\ crop = NoCrop
    /\ last = [Blank(NoTime, 0, NoCrop) EXCEPT !.outcome = "none"]
    /\ bc = NoBc

SpecParam == InitParam /\ [][Next]_vars

\* BCFile objects constructed on their own, next to one boundary object.
InitBC ==
    /\ params = SpectraParams
    /\ source = [i \in 1..MinLen |-> [t |-> i - 1, v |-> "ok"]]
    /\ filelist = TRUE
    /\ crop_data = TRUE
    /\ crop = NoCrop
    /\ last = [Blank(NoTime, 0, NoCrop) EXCEPT !.outcome = "none"]
    /\ bc = NoBc

NextBC == \E b \in PathChoices, f \in PathChoices : NewBCFile(b, f)

SpecBC == InitBC /\ [][NextBC]_vars

\* ================================================================= claims
\* The series get selected in the last call (self.ds under the crop the
\* call left in the filter).
LastDs == FilteredDs(source, last.crop)

Called == last.outcome # "none"
Ran    == Called /\ ~last.time.none /\ last.outcome # "range_error"
LastN  == Len(last.padded)

\* C1: endpoint exactness of the time range adjuster.  When the requested
\* interval lies within the span of the series given to _adjust_time, the
\* adjusted series starts exactly at start and ends exactly at end.
C1_EndpointExact ==
    (filelist /\ Ran
       /\ LastDs[1].t <= last.time.start
       /\ last.time.start <= last.time.end
       /\ last.time.end <= LastDs[Len(LastDs)].t)
    => /\ LastN >= 1
       /\ last.padded[1].t = last.time.start
       /\ last.padded[LastN].t = last.time.end

\* C1 witness: both endpoints fall strictly between source instants and the
\* adjusted series starts and ends on them.
C1_Witness ==
    /\ filelist /\ Ran
    /\ last.time.start < last.time.end
    /\ LastDs[1].t < last.time.start
    /\ last.time.end < LastDs[Len(LastDs)].t
    /\ ~InTimes(last.time.start, LastDs)
    /\ ~InTimes(last.time.end, LastDs)
    /\ last.padded[1].t = last.time.start
    /\ last.padded[LastN].t = last.time.end

IndexDurations == [i \in 1..Len(last.index) |-> last.index[i].duration]

\* C3: duration conservation.  After a successful SEQUENCE call the index
\* holds N-1 data lines and the durations on the lines sum to the seconds
\* elapsed between the first and the last instant of the padded series.
C3_DurationConservation ==
    (filelist /\ last.outcome = "ok") =>
       /\ Len(last.index) = LastN - 1
       /\ SumSeq(IndexDurations)
            = TotalSeconds(last.padded[LastN].t - last.padded[1].t)

\* C4: every BCFile that construction accepts has exactly one of bcfile and
\* filelist populated.
C4_ExactlyOne ==
    bc.verdict = "ok" => (bc.bcfile.set # bc.filelist.set)

C6_RangePrecondition ==
    (Called /\ ~last.time.none
       /\ (last.time.start < source[1].t
             \/ last.time.end > source[Len(source)].t))
    => /\ last.outcome = "range_error"
       /\ last.interps = 0
       /\ last.written = <<>>
       /\ ~last.indexWritten

C8_AllOrNothing ==
    (Called /\ last.outcome # "ok") =>
       last.written = <<>> /\ ~last.indexWritten

\* C9: the conversion of a zero spread raises instead of returning
\* infinity, so no statistics table and no boundary record ever carries a
\* non-finite spreading exponent.
C9_SpreadZeroRaises ==
    /\ \A k \in 1..Len(last.stats) : last.stats[k].s # "inf"
    /\ \A k \in 1..Len(last.built) : last.built[k].s # "inf"

\* Two calls that end alike and emit the same files, durations and namelist.
SameEmission(a, b) ==
    /\ a.outcome = b.outcome
    /\ a.written = b.written
    /\ a.index = b.index
    /\ a.result = b.result

\* C10: no state crosses calls.  Every get leaves the object as constructed
\* and does what the same call does on a freshly constructed object.
C10_NoStateCrossesCalls ==
    Called =>
       SameEmission(last, GetOutcome(params, source, crop_data, filelist,
                                     NoCrop, last.time, last.failAt))

\* C11: the time argument of get is optional and only used when crop_data
\* is True: a call with time omitted, or with crop_data False, completes in
\* either mode and never reads time.start or time.end.  TimeRead holds of a
\* call that went on to the interpolation at time.start or to _adjust_time.
TimeRead == last.stats # <<>> \/ last.padded # <<>>

C11_TimeOptional ==
    (Called /\ (last.time.none \/ ~crop_data)) =>
       /\ last.outcome # "attr_error"
       /\ ~TimeRead

WrittenNames == {last.written[i].name : i \in 1..Len(last.written)}

C13_NamesInjective ==
    /\ \A i, j \in 1..Len(last.built) :
          last.built[i].bcfile = last.built[j].bcfile =>
             last.built[i].t = last.built[j].t
    /\ (filelist /\ last.indexWritten) =>
          Cardinality(WrittenNames) = LastN - 1

\* C14: in SEQUENCE mode the index file is written only after every one of
\* the N-1 boundary files has been built and written, line i carrying the
\* duration and the file name of the i-th instant in time order; when the
\* building or the writing of a boundary file fails, no index is written,
\* so that every file an index names has been written.
C14_IndexAfterFiles ==
    /\ last.indexWritten =>
          /\ filelist
          /\ Len(last.built) = LastN - 1
          /\ Len(last.written) = LastN - 1
          /\ Len(last.index) = LastN - 1
          /\ \A i \in 1..Len(last.index) :
                /\ last.index[i].file = BcfileName(last.padded[i].t)
                /\ last.index[i].duration =
                      FmtG(TotalSeconds(last.padded[i + 1].t - last.padded[i].t))
                /\ last.index[i].file \in WrittenNames
    /\ (Called /\ filelist /\ Len(last.written) < LastN - 1) =>
          ~last.indexWritten /\ last.text = <<>>

\* The second of two boundary files fails to write after the first was
\* written, and the call ends without an index.
C14_Witness ==
    /\ filelist /\ LastN = 3
    /\ last.outcome = "io_error"
    /\ Len(last.written) = 1
    /\ ~last.indexWritten

\* C15: in the parametric variant a parameter left unconfigured (gammajsp
\* or dspr None) gets no entry in the statistics table (gammajsp,
\* respectively s), no placeholder value stands in for it, and the records
\* are built from the remaining parameters without error.
C15_UnconfiguredOmitted ==
    (Called /\ params.variant = "param") =>
       /\ params.gammajsp = "None" =>
             \A k \in 1..Len(last.stats) : last.stats[k].gammajsp = "absent"
       /\ params.dspr = "None" =>
             \A k \in 1..Len(last.stats) : last.stats[k].s = "absent"
       /\ (params.gammajsp = "None" \/ params.dspr = "None") =>
             last.outcome \notin {"type_error", "value_error"}

====
